---------------------------- MODULE Spec2Model ----------------------------
(***************************************************************************)
(* Vocabulary statistics and vocabulary graph of the repository:           *)
(*   src/stats.py                 extract_terms, count_frequencies,        *)
(*                                _get_top_terms, build_graph, main        *)
(*   src/generate_vocab_graph.py  the "neon" graph script                  *)
(*                                                                         *)
(* A Python str is a sequence of code points (integers), so that           *)
(* str.lower(), the comparison of strings and the regular expression's     *)
(* word boundaries are computed as Python computes them, over every code   *)
(* point of Unicode.  The code points written out below: 10 "\n", 32 " ",   *)
(* 35 "#", 45 "-", 46 ".", 65 "A", 66 "B", 92 "\", 97 "a", 98 "b", 99 "c",  *)
(* 100 "d", 304 capital I with dot, 931 capital sigma, 962 final sigma,    *)
(* 963 small sigma.                                                        *)
(***************************************************************************)
EXTENDS Integers, Sequences, FiniteSets, TLC

VARIABLES pc, vocab_md, terms, research_text, frequencies, top, G,
          vocab_text, neon

vars == <<pc, vocab_md, terms, research_text, frequencies, top, G,
          vocab_text, neon>>

-----------------------------------------------------------------------------
(* Bounds of the model.                                                    *)

\* longest vocabulary document of SpecExtract, in lines
MaxLines == 2
\* longest research text of Spec, in characters
MaxTextLen == 3
\* largest term list of Spec: one per term plus one per character of it
MaxTermChars == 5
\* most entries of a frequency map of SpecGraph
MaxKeys == 4
\* largest count of a frequency map of SpecGraph and SpecScripts
MaxCount == 2
\* most entries of usage_stats.json in SpecScripts
MaxStatsKeys == 3
\* longest vocabulary document of SpecScripts, in lines
MaxNeonLines == 2

-----------------------------------------------------------------------------
(* Python's str and list primitives.                                       *)

SeqsUpTo(S, n) == UNION {[1..k -> S] : k \in 0..n}

RECURSIVE Join(_, _)
\* sep.join(parts)
Join(parts, sep) ==
    IF parts = <<>> THEN <<>>
    ELSE IF Len(parts) = 1 THEN parts[1]
    ELSE parts[1] \o sep \o Join(Tail(parts), sep)

\* Py_UNICODE_ISSPACE: the characters str.strip() removes
WhiteSpace ==
    {9, 10, 11, 12, 13, 28, 29, 30, 31, 32, 133, 160, 5760, 8192, 8193, 8194,
     8195, 8196, 8197, 8198, 8199, 8200, 8201, 8202, 8232, 8233, 8239, 8287,
     12288}

IsSpace(c) == c \in WhiteSpace

\* the characters str.splitlines() breaks a line at
LineBreaks ==
    {10, 11, 12, 13, 28, 29, 30, 133, 8232, 8233}

IsLineBreak(c) == c \in LineBreaks

\* c lies in one of the ranges <<first, last, ...>> of R
InRanges(c, R) == \E r \in R : r[1] <= c /\ c <= r[2]

\* The alphanumeric characters beyond ASCII (str.isalnum(), the test behind
\* the regular expression's \w and \b for a str pattern), as ranges
\* <<first, last>> of code points.
AlnumRanges ==
    {<<170, 170>>, <<178, 179>>, <<181, 181>>, <<185, 186>>, <<188, 190>>,
     <<192, 214>>, <<216, 246>>, <<248, 705>>, <<710, 721>>, <<736, 740>>,
     <<748, 748>>, <<750, 750>>, <<880, 884>>, <<886, 887>>, <<890, 893>>,
     <<895, 895>>, <<902, 902>>, <<904, 906>>, <<908, 908>>, <<910, 929>>,
     <<931, 1013>>, <<1015, 1153>>, <<1162, 1327>>, <<1329, 1366>>, <<1369,
     1369>>, <<1376, 1416>>, <<1488, 1514>>, <<1519, 1522>>, <<1568, 1610>>,
     <<1632, 1641>>, <<1646, 1647>>, <<1649, 1747>>, <<1749, 1749>>, <<1765,
     1766>>, <<1774, 1788>>, <<1791, 1791>>, <<1808, 1808>>, <<1810, 1839>>,
     <<1869, 1957>>, <<1969, 1969>>, <<1984, 2026>>, <<2036, 2037>>, <<2042,
     2042>>, <<2048, 2069>>, <<2074, 2074>>, <<2084, 2084>>, <<2088, 2088>>,
     <<2112, 2136>>, <<2144, 2154>>, <<2160, 2183>>, <<2185, 2190>>, <<2208,
     2249>>, <<2308, 2361>>, <<2365, 2365>>, <<2384, 2384>>, <<2392, 2401>>,
     <<2406, 2415>>, <<2417, 2432>>, <<2437, 2444>>, <<2447, 2448>>, <<2451,
     2472>>, <<2474, 2480>>, <<2482, 2482>>, <<2486, 2489>>, <<2493, 2493>>,
     <<2510, 2510>>, <<2524, 2525>>, <<2527, 2529>>, <<2534, 2545>>, <<2548,
     2553>>, <<2556, 2556>>, <<2565, 2570>>, <<2575, 2576>>, <<2579, 2600>>,
     <<2602, 2608>>, <<2610, 2611>>, <<2613, 2614>>, <<2616, 2617>>, <<2649,
     2652>>, <<2654, 2654>>, <<2662, 2671>>, <<2674, 2676>>, <<2693, 2701>>,
     <<2703, 2705>>, <<2707, 2728>>, <<2730, 2736>>, <<2738, 2739>>, <<2741,
     2745>>, <<2749, 2749>>, <<2768, 2768>>, <<2784, 2785>>, <<2790, 2799>>,
     <<2809, 2809>>, <<2821, 2828>>, <<2831, 2832>>, <<2835, 2856>>, <<2858,
     2864>>, <<2866, 2867>>, <<2869, 2873>>, <<2877, 2877>>, <<2908, 2909>>,
     <<2911, 2913>>, <<2918, 2927>>, <<2929, 2935>>, <<2947, 2947>>, <<2949,
     2954>>, <<2958, 2960>>, <<2962, 2965>>, <<2969, 2970>>, <<2972, 2972>>,
     <<2974, 2975>>, <<2979, 2980>>, <<2984, 2986>>, <<2990, 3001>>, <<3024,
     3024>>, <<3046, 3058>>, <<3077, 3084>>, <<3086, 3088>>, <<3090, 3112>>,
     <<3114, 3129>>, <<3133, 3133>>, <<3160, 3162>>, <<3165, 3165>>, <<3168,
     3169>>, <<3174, 3183>>, <<3192, 3198>>, <<3200, 3200>>, <<3205, 3212>>,
     <<3214, 3216>>, <<3218, 3240>>, <<3242, 3251>>, <<3253, 3257>>, <<3261,
     3261>>, <<3293, 3294>>, <<3296, 3297>>, <<3302, 3311>>, <<3313, 3314>>,
     <<3332, 3340>>, <<3342, 3344>>, <<3346, 3386>>, <<3389, 3389>>, <<3406,
     3406>>, <<3412, 3414>>, <<3416, 3425>>, <<3430, 3448>>, <<3450, 3455>>,
     <<3461, 3478>>, <<3482, 3505>>, <<3507, 3515>>, <<3517, 3517>>, <<3520,
     3526>>, <<3558, 3567>>, <<3585, 3632>>, <<3634, 3635>>, <<3648, 3654>>,
     <<3664, 3673>>, <<3713, 3714>>, <<3716, 3716>>, <<3718, 3722>>, <<3724,
     3747>>, <<3749, 3749>>, <<3751, 3760>>, <<3762, 3763>>, <<3773, 3773>>,
     <<3776, 3780>>, <<3782, 3782>>, <<3792, 3801>>, <<3804, 3807>>, <<3840,
     3840>>, <<3872, 3891>>, <<3904, 3911>>, <<3913, 3948>>, <<3976, 3980>>,
     <<4096, 4138>>, <<4159, 4169>>, <<4176, 4181>>, <<4186, 4189>>, <<4193,
     4193>>, <<4197, 4198>>, <<4206, 4208>>, <<4213, 4225>>, <<4238, 4238>>,
     <<4240, 4249>>, <<4256, 4293>>, <<4295, 4295>>, <<4301, 4301>>, <<4304,
     4346>>, <<4348, 4680>>, <<4682, 4685>>, <<4688, 4694>>, <<4696, 4696>>,
     <<4698, 4701>>, <<4704, 4744>>, <<4746, 4749>>, <<4752, 4784>>, <<4786,
     4789>>, <<4792, 4798>>, <<4800, 4800>>, <<4802, 4805>>, <<4808, 4822>>,
     <<4824, 4880>>, <<4882, 4885>>, <<4888, 4954>>, <<4969, 4988>>, <<4992,
     5007>>, <<5024, 5109>>, <<5112, 5117>>, <<5121, 5740>>, <<5743, 5759>>,
     <<5761, 5786>>, <<5792, 5866>>, <<5870, 5880>>, <<5888, 5905>>, <<5919,
     5937>>, <<5952, 5969>>, <<5984, 5996>>, <<5998, 6000>>, <<6016, 6067>>,
     <<6103, 6103>>, <<6108, 6108>>, <<6112, 6121>>, <<6128, 6137>>, <<6160,
     6169>>, <<6176, 6264>>, <<6272, 6276>>, <<6279, 6312>>, <<6314, 6314>>,
     <<6320, 6389>>, <<6400, 6430>>, <<6470, 6509>>, <<6512, 6516>>, <<6528,
     6571>>, <<6576, 6601>>, <<6608, 6618>>, <<6656, 6678>>, <<6688, 6740>>,
     <<6784, 6793>>, <<6800, 6809>>, <<6823, 6823>>, <<6917, 6963>>, <<6981,
     6988>>, <<6992, 7001>>, <<7043, 7072>>, <<7086, 7141>>, <<7168, 7203>>,
     <<7232, 7241>>, <<7245, 7293>>, <<7296, 7304>>, <<7312, 7354>>, <<7357,
     7359>>, <<7401, 7404>>, <<7406, 7411>>, <<7413, 7414>>, <<7418, 7418>>,
     <<7424, 7615>>, <<7680, 7957>>, <<7960, 7965>>, <<7968, 8005>>, <<8008,
     8013>>, <<8016, 8023>>, <<8025, 8025>>, <<8027, 8027>>, <<8029, 8029>>,
     <<8031, 8061>>, <<8064, 8116>>, <<8118, 8124>>, <<8126, 8126>>, <<8130,
     8132>>, <<8134, 8140>>, <<8144, 8147>>, <<8150, 8155>>, <<8160, 8172>>,
     <<8178, 8180>>, <<8182, 8188>>, <<8304, 8305>>, <<8308, 8313>>, <<8319,
     8329>>, <<8336, 8348>>, <<8450, 8450>>, <<8455, 8455>>, <<8458, 8467>>,
     <<8469, 8469>>, <<8473, 8477>>, <<8484, 8484>>, <<8486, 8486>>, <<8488,
     8488>>, <<8490, 8493>>, <<8495, 8505>>, <<8508, 8511>>, <<8517, 8521>>,
     <<8526, 8526>>, <<8528, 8585>>, <<9312, 9371>>, <<9450, 9471>>, <<10102,
     10131>>, <<11264, 11492>>, <<11499, 11502>>, <<11506, 11507>>, <<11517,
     11517>>, <<11520, 11557>>, <<11559, 11559>>, <<11565, 11565>>, <<11568,
     11623>>, <<11631, 11631>>, <<11648, 11670>>, <<11680, 11686>>, <<11688,
     11694>>, <<11696, 11702>>, <<11704, 11710>>, <<11712, 11718>>, <<11720,
     11726>>, <<11728, 11734>>, <<11736, 11742>>, <<11823, 11823>>, <<12293,
     12295>>, <<12321, 12329>>, <<12337, 12341>>, <<12344, 12348>>, <<12353,
     12438>>, <<12445, 12447>>, <<12449, 12538>>, <<12540, 12543>>, <<12549,
     12591>>, <<12593, 12686>>, <<12690, 12693>>, <<12704, 12735>>, <<12784,
     12799>>, <<12832, 12841>>, <<12872, 12879>>, <<12881, 12895>>, <<12928,
     12937>>, <<12977, 12991>>, <<13312, 19903>>, <<19968, 42124>>, <<42192,
     42237>>, <<42240, 42508>>, <<42512, 42539>>, <<42560, 42606>>, <<42623,
     42653>>, <<42656, 42735>>, <<42775, 42783>>, <<42786, 42888>>, <<42891,
     42954>>, <<42960, 42961>>, <<42963, 42963>>, <<42965, 42969>>, <<42994,
     43009>>, <<43011, 43013>>, <<43015, 43018>>, <<43020, 43042>>, <<43056,
     43061>>, <<43072, 43123>>, <<43138, 43187>>, <<43216, 43225>>, <<43250,
     43255>>, <<43259, 43259>>, <<43261, 43262>>, <<43264, 43301>>, <<43312,
     43334>>, <<43360, 43388>>, <<43396, 43442>>, <<43471, 43481>>, <<43488,
     43492>>, <<43494, 43518>>, <<43520, 43560>>, <<43584, 43586>>, <<43588,
     43595>>, <<43600, 43609>>, <<43616, 43638>>, <<43642, 43642>>, <<43646,
     43695>>, <<43697, 43697>>, <<43701, 43702>>, <<43705, 43709>>, <<43712,
     43712>>, <<43714, 43714>>, <<43739, 43741>>, <<43744, 43754>>, <<43762,
     43764>>, <<43777, 43782>>, <<43785, 43790>>, <<43793, 43798>>, <<43808,
     43814>>, <<43816, 43822>>, <<43824, 43866>>, <<43868, 43881>>, <<43888,
     44002>>, <<44016, 44025>>, <<44032, 55203>>, <<55216, 55238>>, <<55243,
     55291>>, <<63744, 64109>>, <<64112, 64217>>, <<64256, 64262>>, <<64275,
     64279>>, <<64285, 64285>>, <<64287, 64296>>, <<64298, 64310>>, <<64312,
     64316>>, <<64318, 64318>>, <<64320, 64321>>, <<64323, 64324>>, <<64326,
     64433>>, <<64467, 64829>>, <<64848, 64911>>, <<64914, 64967>>, <<65008,
     65019>>, <<65136, 65140>>, <<65142, 65276>>, <<65296, 65305>>, <<65313,
     65338>>, <<65345, 65370>>, <<65382, 65470>>, <<65474, 65479>>, <<65482,
     65487>>, <<65490, 65495>>, <<65498, 65500>>, <<65536, 65547>>, <<65549,
     65574>>, <<65576, 65594>>, <<65596, 65597>>, <<65599, 65613>>, <<65616,
     65629>>, <<65664, 65786>>, <<65799, 65843>>, <<65856, 65912>>, <<65930,
     65931>>, <<66176, 66204>>, <<66208, 66256>>, <<66273, 66299>>, <<66304,
     66339>>, <<66349, 66378>>, <<66384, 66421>>, <<66432, 66461>>, <<66464,
     66499>>, <<66504, 66511>>, <<66513, 66517>>, <<66560, 66717>>, <<66720,
     66729>>, <<66736, 66771>>, <<66776, 66811>>, <<66816, 66855>>, <<66864,
     66915>>, <<66928, 66938>>, <<66940, 66954>>, <<66956, 66962>>, <<66964,
     66965>>, <<66967, 66977>>, <<66979, 66993>>, <<66995, 67001>>, <<67003,
     67004>>, <<67072, 67382>>, <<67392, 67413>>, <<67424, 67431>>, <<67456,
     67461>>, <<67463, 67504>>, <<67506, 67514>>, <<67584, 67589>>, <<67592,
     67592>>, <<67594, 67637>>, <<67639, 67640>>, <<67644, 67644>>, <<67647,
     67669>>, <<67672, 67702>>, <<67705, 67742>>, <<67751, 67759>>, <<67808,
     67826>>, <<67828, 67829>>, <<67835, 67867>>, <<67872, 67897>>, <<67968,
     68023>>, <<68028, 68047>>, <<68050, 68096>>, <<68112, 68115>>, <<68117,
     68119>>, <<68121, 68149>>, <<68160, 68168>>, <<68192, 68222>>, <<68224,
     68255>>, <<68288, 68295>>, <<68297, 68324>>, <<68331, 68335>>, <<68352,
     68405>>, <<68416, 68437>>, <<68440, 68466>>, <<68472, 68497>>, <<68521,
     68527>>, <<68608, 68680>>, <<68736, 68786>>, <<68800, 68850>>, <<68858,
     68899>>, <<68912, 68921>>, <<69216, 69246>>, <<69248, 69289>>, <<69296,
     69297>>, <<69376, 69415>>, <<69424, 69445>>, <<69457, 69460>>, <<69488,
     69505>>, <<69552, 69579>>, <<69600, 69622>>, <<69635, 69687>>, <<69714,
     69743>>, <<69745, 69746>>, <<69749, 69749>>, <<69763, 69807>>, <<69840,
     69864>>, <<69872, 69881>>, <<69891, 69926>>, <<69942, 69951>>, <<69956,
     69956>>, <<69959, 69959>>, <<69968, 70002>>, <<70006, 70006>>, <<70019,
     70066>>, <<70081, 70084>>, <<70096, 70106>>, <<70108, 70108>>, <<70113,
     70132>>, <<70144, 70161>>, <<70163, 70187>>, <<70272, 70278>>, <<70280,
     70280>>, <<70282, 70285>>, <<70287, 70301>>, <<70303, 70312>>, <<70320,
     70366>>, <<70384, 70393>>, <<70405, 70412>>, <<70415, 70416>>, <<70419,
     70440>>, <<70442, 70448>>, <<70450, 70451>>, <<70453, 70457>>, <<70461,
     70461>>, <<70480, 70480>>, <<70493, 70497>>, <<70656, 70708>>, <<70727,
     70730>>, <<70736, 70745>>, <<70751, 70753>>, <<70784, 70831>>, <<70852,
     70853>>, <<70855, 70855>>, <<70864, 70873>>, <<71040, 71086>>, <<71128,
     71131>>, <<71168, 71215>>, <<71236, 71236>>, <<71248, 71257>>, <<71296,
     71338>>, <<71352, 71352>>, <<71360, 71369>>, <<71424, 71450>>, <<71472,
     71483>>, <<71488, 71494>>, <<71680, 71723>>, <<71840, 71922>>, <<71935,
     71942>>, <<71945, 71945>>, <<71948, 71955>>, <<71957, 71958>>, <<71960,
     71983>>, <<71999, 71999>>, <<72001, 72001>>, <<72016, 72025>>, <<72096,
     72103>>, <<72106, 72144>>, <<72161, 72161>>, <<72163, 72163>>, <<72192,
     72192>>, <<72203, 72242>>, <<72250, 72250>>, <<72272, 72272>>, <<72284,
     72329>>, <<72349, 72349>>, <<72368, 72440>>, <<72704, 72712>>, <<72714,
     72750>>, <<72768, 72768>>, <<72784, 72812>>, <<72818, 72847>>, <<72960,
     72966>>, <<72968, 72969>>, <<72971, 73008>>, <<73030, 73030>>, <<73040,
     73049>>, <<73056, 73061>>, <<73063, 73064>>, <<73066, 73097>>, <<73112,
     73112>>, <<73120, 73129>>, <<73440, 73458>>, <<73648, 73648>>, <<73664,
     73684>>, <<73728, 74649>>, <<74752, 74862>>, <<74880, 75075>>, <<77712,
     77808>>, <<77824, 78894>>, <<82944, 83526>>, <<92160, 92728>>, <<92736,
     92766>>, <<92768, 92777>>, <<92784, 92862>>, <<92864, 92873>>, <<92880,
     92909>>, <<92928, 92975>>, <<92992, 92995>>, <<93008, 93017>>, <<93019,
     93025>>, <<93027, 93047>>, <<93053, 93071>>, <<93760, 93846>>, <<93952,
     94026>>, <<94032, 94032>>, <<94099, 94111>>, <<94176, 94177>>, <<94179,
     94179>>, <<94208, 100343>>, <<100352, 101589>>, <<101632, 101640>>,
     <<110576, 110579>>, <<110581, 110587>>, <<110589, 110590>>, <<110592,
     110882>>, <<110928, 110930>>, <<110948, 110951>>, <<110960, 111355>>,
     <<113664, 113770>>, <<113776, 113788>>, <<113792, 113800>>, <<113808,
     113817>>, <<119520, 119539>>, <<119648, 119672>>, <<119808, 119892>>,
     <<119894, 119964>>, <<119966, 119967>>, <<119970, 119970>>, <<119973,
     119974>>, <<119977, 119980>>, <<119982, 119993>>, <<119995, 119995>>,
     <<119997, 120003>>, <<120005, 120069>>, <<120071, 120074>>, <<120077,
     120084>>, <<120086, 120092>>, <<120094, 120121>>, <<120123, 120126>>,
     <<120128, 120132>>, <<120134, 120134>>, <<120138, 120144>>, <<120146,
     120485>>, <<120488, 120512>>, <<120514, 120538>>, <<120540, 120570>>,
     <<120572, 120596>>, <<120598, 120628>>, <<120630, 120654>>, <<120656,
     120686>>, <<120688, 120712>>, <<120714, 120744>>, <<120746, 120770>>,
     <<120772, 120779>>, <<120782, 120831>>, <<122624, 122654>>, <<123136,
     123180>>, <<123191, 123197>>, <<123200, 123209>>, <<123214, 123214>>,
     <<123536, 123565>>, <<123584, 123627>>, <<123632, 123641>>, <<124896,
     124902>>, <<124904, 124907>>, <<124909, 124910>>, <<124912, 124926>>,
     <<124928, 125124>>, <<125127, 125135>>, <<125184, 125251>>, <<125259,
     125259>>, <<125264, 125273>>, <<126065, 126123>>, <<126125, 126127>>,
     <<126129, 126132>>, <<126209, 126253>>, <<126255, 126269>>, <<126464,
     126467>>, <<126469, 126495>>, <<126497, 126498>>, <<126500, 126500>>,
     <<126503, 126503>>, <<126505, 126514>>, <<126516, 126519>>, <<126521,
     126521>>, <<126523, 126523>>, <<126530, 126530>>, <<126535, 126535>>,
     <<126537, 126537>>, <<126539, 126539>>, <<126541, 126543>>, <<126545,
     126546>>, <<126548, 126548>>, <<126551, 126551>>, <<126553, 126553>>,
     <<126555, 126555>>, <<126557, 126557>>, <<126559, 126559>>, <<126561,
     126562>>, <<126564, 126564>>, <<126567, 126570>>, <<126572, 126578>>,
     <<126580, 126583>>, <<126585, 126588>>, <<126590, 126590>>, <<126592,
     126601>>, <<126603, 126619>>, <<126625, 126627>>, <<126629, 126633>>,
     <<126635, 126651>>, <<127232, 127244>>, <<130032, 130041>>, <<131072,
     173791>>, <<173824, 177976>>, <<177984, 178205>>, <<178208, 183969>>,
     <<183984, 191456>>, <<194560, 195101>>, <<196608, 201546>>}

\* a word character of the regular expression: alphanumeric or "_"
IsWord(c) ==
    IF c < 128 THEN c \in (48..57) \cup (65..90) \cup (97..122) \cup {95}
    ELSE InRanges(c, AlnumRanges)

\* The characters beyond ASCII whose lower case is one other character, as
\* <<first, last, step, delta>>: first, first + step, ..., last each map to
\* themselves plus delta.
LowerRanges ==
    {<<192, 214, 1, 32>>, <<216, 222, 1, 32>>, <<256, 302, 2, 1>>, <<306,
     310, 2, 1>>, <<313, 327, 2, 1>>, <<330, 374, 2, 1>>, <<376, 376, 1,
     -121>>, <<377, 381, 2, 1>>, <<385, 385, 1, 210>>, <<386, 388, 2, 1>>,
     <<390, 390, 1, 206>>, <<391, 391, 1, 1>>, <<393, 394, 1, 205>>, <<395,
     395, 1, 1>>, <<398, 398, 1, 79>>, <<399, 399, 1, 202>>, <<400, 400, 1,
     203>>, <<401, 401, 1, 1>>, <<403, 403, 1, 205>>, <<404, 404, 1, 207>>,
     <<406, 406, 1, 211>>, <<407, 407, 1, 209>>, <<408, 408, 1, 1>>, <<412,
     412, 1, 211>>, <<413, 413, 1, 213>>, <<415, 415, 1, 214>>, <<416, 420,
     2, 1>>, <<422, 422, 1, 218>>, <<423, 423, 1, 1>>, <<425, 425, 1, 218>>,
     <<428, 428, 1, 1>>, <<430, 430, 1, 218>>, <<431, 431, 1, 1>>, <<433,
     434, 1, 217>>, <<435, 437, 2, 1>>, <<439, 439, 1, 219>>, <<440, 440, 1,
     1>>, <<444, 444, 1, 1>>, <<452, 452, 1, 2>>, <<453, 453, 1, 1>>, <<455,
     455, 1, 2>>, <<456, 456, 1, 1>>, <<458, 458, 1, 2>>, <<459, 475, 2, 1>>,
     <<478, 494, 2, 1>>, <<497, 497, 1, 2>>, <<498, 500, 2, 1>>, <<502, 502,
     1, -97>>, <<503, 503, 1, -56>>, <<504, 542, 2, 1>>, <<544, 544, 1,
     -130>>, <<546, 562, 2, 1>>, <<570, 570, 1, 10795>>, <<571, 571, 1, 1>>,
     <<573, 573, 1, -163>>, <<574, 574, 1, 10792>>, <<577, 577, 1, 1>>,
     <<579, 579, 1, -195>>, <<580, 580, 1, 69>>, <<581, 581, 1, 71>>, <<582,
     590, 2, 1>>, <<880, 882, 2, 1>>, <<886, 886, 1, 1>>, <<895, 895, 1,
     116>>, <<902, 902, 1, 38>>, <<904, 906, 1, 37>>, <<908, 908, 1, 64>>,
     <<910, 911, 1, 63>>, <<913, 929, 1, 32>>, <<931, 939, 1, 32>>, <<975,
     975, 1, 8>>, <<984, 1006, 2, 1>>, <<1012, 1012, 1, -60>>, <<1015, 1015,
     1, 1>>, <<1017, 1017, 1, -7>>, <<1018, 1018, 1, 1>>, <<1021, 1023, 1,
     -130>>, <<1024, 1039, 1, 80>>, <<1040, 1071, 1, 32>>, <<1120, 1152, 2,
     1>>, <<1162, 1214, 2, 1>>, <<1216, 1216, 1, 15>>, <<1217, 1229, 2, 1>>,
     <<1232, 1326, 2, 1>>, <<1329, 1366, 1, 48>>, <<4256, 4293, 1, 7264>>,
     <<4295, 4295, 1, 7264>>, <<4301, 4301, 1, 7264>>, <<5024, 5103, 1,
     38864>>, <<5104, 5109, 1, 8>>, <<7312, 7354, 1, -3008>>, <<7357, 7359,
     1, -3008>>, <<7680, 7828, 2, 1>>, <<7838, 7838, 1, -7615>>, <<7840,
     7934, 2, 1>>, <<7944, 7951, 1, -8>>, <<7960, 7965, 1, -8>>, <<7976,
     7983, 1, -8>>, <<7992, 7999, 1, -8>>, <<8008, 8013, 1, -8>>, <<8025,
     8031, 2, -8>>, <<8040, 8047, 1, -8>>, <<8072, 8079, 1, -8>>, <<8088,
     8095, 1, -8>>, <<8104, 8111, 1, -8>>, <<8120, 8121, 1, -8>>, <<8122,
     8123, 1, -74>>, <<8124, 8124, 1, -9>>, <<8136, 8139, 1, -86>>, <<8140,
     8140, 1, -9>>, <<8152, 8153, 1, -8>>, <<8154, 8155, 1, -100>>, <<8168,
     8169, 1, -8>>, <<8170, 8171, 1, -112>>, <<8172, 8172, 1, -7>>, <<8184,
     8185, 1, -128>>, <<8186, 8187, 1, -126>>, <<8188, 8188, 1, -9>>, <<8486,
     8486, 1, -7517>>, <<8490, 8490, 1, -8383>>, <<8491, 8491, 1, -8262>>,
     <<8498, 8498, 1, 28>>, <<8544, 8559, 1, 16>>, <<8579, 8579, 1, 1>>,
     <<9398, 9423, 1, 26>>, <<11264, 11311, 1, 48>>, <<11360, 11360, 1, 1>>,
     <<11362, 11362, 1, -10743>>, <<11363, 11363, 1, -3814>>, <<11364, 11364,
     1, -10727>>, <<11367, 11371, 2, 1>>, <<11373, 11373, 1, -10780>>,
     <<11374, 11374, 1, -10749>>, <<11375, 11375, 1, -10783>>, <<11376,
     11376, 1, -10782>>, <<11378, 11378, 1, 1>>, <<11381, 11381, 1, 1>>,
     <<11390, 11391, 1, -10815>>, <<11392, 11490, 2, 1>>, <<11499, 11501, 2,
     1>>, <<11506, 11506, 1, 1>>, <<42560, 42604, 2, 1>>, <<42624, 42650, 2,
     1>>, <<42786, 42798, 2, 1>>, <<42802, 42862, 2, 1>>, <<42873, 42875, 2,
     1>>, <<42877, 42877, 1, -35332>>, <<42878, 42886, 2, 1>>, <<42891,
     42891, 1, 1>>, <<42893, 42893, 1, -42280>>, <<42896, 42898, 2, 1>>,
     <<42902, 42920, 2, 1>>, <<42922, 42922, 1, -42308>>, <<42923, 42923, 1,
     -42319>>, <<42924, 42924, 1, -42315>>, <<42925, 42925, 1, -42305>>,
     <<42926, 42926, 1, -42308>>, <<42928, 42928, 1, -42258>>, <<42929,
     42929, 1, -42282>>, <<42930, 42930, 1, -42261>>, <<42931, 42931, 1,
     928>>, <<42932, 42946, 2, 1>>, <<42948, 42948, 1, -48>>, <<42949, 42949,
     1, -42307>>, <<42950, 42950, 1, -35384>>, <<42951, 42953, 2, 1>>,
     <<42960, 42960, 1, 1>>, <<42966, 42968, 2, 1>>, <<42997, 42997, 1, 1>>,
     <<65313, 65338, 1, 32>>, <<66560, 66599, 1, 40>>, <<66736, 66771, 1,
     40>>, <<66928, 66938, 1, 39>>, <<66940, 66954, 1, 39>>, <<66956, 66962,
     1, 39>>, <<66964, 66965, 1, 39>>, <<68736, 68786, 1, 64>>, <<71840,
     71871, 1, 32>>, <<93760, 93791, 1, 32>>, <<125184, 125217, 1, 34>>}

\* chr(c).lower(), as a string: U+0130 lower-cases to two characters
lower_ch(c) ==
    IF c < 128 THEN <<IF c \in 65..90 THEN c + 32 ELSE c>>
    ELSE IF c = 304 THEN <<105, 775>>
    ELSE LET hits == {r \in LowerRanges :
                         r[1] <= c /\ c <= r[2] /\ (c - r[1]) % r[3] = 0}
         IN  IF hits = {} THEN <<c>>
             ELSE <<c + (CHOOSE r \in hits : TRUE)[4]>>

\* the cased characters (_PyUnicode_IsCased), as ranges <<first, last>>
CasedRanges ==
    {<<65, 90>>, <<97, 122>>, <<170, 170>>, <<181, 181>>, <<186, 186>>,
     <<192, 214>>, <<216, 246>>, <<248, 442>>, <<444, 447>>, <<452, 659>>,
     <<661, 696>>, <<704, 705>>, <<736, 740>>, <<837, 837>>, <<880, 883>>,
     <<886, 887>>, <<890, 893>>, <<895, 895>>, <<902, 902>>, <<904, 906>>,
     <<908, 908>>, <<910, 929>>, <<931, 1013>>, <<1015, 1153>>, <<1162,
     1327>>, <<1329, 1366>>, <<1376, 1416>>, <<4256, 4293>>, <<4295, 4295>>,
     <<4301, 4301>>, <<4304, 4346>>, <<4349, 4351>>, <<5024, 5109>>, <<5112,
     5117>>, <<7296, 7304>>, <<7312, 7354>>, <<7357, 7359>>, <<7424, 7615>>,
     <<7680, 7957>>, <<7960, 7965>>, <<7968, 8005>>, <<8008, 8013>>, <<8016,
     8023>>, <<8025, 8025>>, <<8027, 8027>>, <<8029, 8029>>, <<8031, 8061>>,
     <<8064, 8116>>, <<8118, 8124>>, <<8126, 8126>>, <<8130, 8132>>, <<8134,
     8140>>, <<8144, 8147>>, <<8150, 8155>>, <<8160, 8172>>, <<8178, 8180>>,
     <<8182, 8188>>, <<8305, 8305>>, <<8319, 8319>>, <<8336, 8348>>, <<8450,
     8450>>, <<8455, 8455>>, <<8458, 8467>>, <<8469, 8469>>, <<8473, 8477>>,
     <<8484, 8484>>, <<8486, 8486>>, <<8488, 8488>>, <<8490, 8493>>, <<8495,
     8500>>, <<8505, 8505>>, <<8508, 8511>>, <<8517, 8521>>, <<8526, 8526>>,
     <<8544, 8575>>, <<8579, 8580>>, <<9398, 9449>>, <<11264, 11492>>,
     <<11499, 11502>>, <<11506, 11507>>, <<11520, 11557>>, <<11559, 11559>>,
     <<11565, 11565>>, <<42560, 42605>>, <<42624, 42653>>, <<42786, 42887>>,
     <<42891, 42894>>, <<42896, 42954>>, <<42960, 42961>>, <<42963, 42963>>,
     <<42965, 42969>>, <<42997, 42998>>, <<43000, 43002>>, <<43824, 43866>>,
     <<43868, 43880>>, <<43888, 43967>>, <<64256, 64262>>, <<64275, 64279>>,
     <<65313, 65338>>, <<65345, 65370>>, <<66560, 66639>>, <<66736, 66771>>,
     <<66776, 66811>>, <<66928, 66938>>, <<66940, 66954>>, <<66956, 66962>>,
     <<66964, 66965>>, <<66967, 66977>>, <<66979, 66993>>, <<66995, 67001>>,
     <<67003, 67004>>, <<67456, 67456>>, <<67459, 67461>>, <<67463, 67504>>,
     <<67506, 67514>>, <<68736, 68786>>, <<68800, 68850>>, <<71840, 71903>>,
     <<93760, 93823>>, <<119808, 119892>>, <<119894, 119964>>, <<119966,
     119967>>, <<119970, 119970>>, <<119973, 119974>>, <<119977, 119980>>,
     <<119982, 119993>>, <<119995, 119995>>, <<119997, 120003>>, <<120005,
     120069>>, <<120071, 120074>>, <<120077, 120084>>, <<120086, 120092>>,
     <<120094, 120121>>, <<120123, 120126>>, <<120128, 120132>>, <<120134,
     120134>>, <<120138, 120144>>, <<120146, 120485>>, <<120488, 120512>>,
     <<120514, 120538>>, <<120540, 120570>>, <<120572, 120596>>, <<120598,
     120628>>, <<120630, 120654>>, <<120656, 120686>>, <<120688, 120712>>,
     <<120714, 120744>>, <<120746, 120770>>, <<120772, 120779>>, <<122624,
     122633>>, <<122635, 122654>>, <<125184, 125251>>, <<127280, 127305>>,
     <<127312, 127337>>, <<127344, 127369>>}

IsCased(c) == InRanges(c, CasedRanges)

\* the case-ignorable characters (_PyUnicode_IsCaseIgnorable)
CaseIgnorableRanges ==
    {<<39, 39>>, <<46, 46>>, <<58, 58>>, <<94, 94>>, <<96, 96>>, <<168,
     168>>, <<173, 173>>, <<175, 175>>, <<180, 180>>, <<183, 184>>, <<688,
     879>>, <<884, 885>>, <<890, 890>>, <<900, 901>>, <<903, 903>>, <<1155,
     1161>>, <<1369, 1369>>, <<1375, 1375>>, <<1425, 1469>>, <<1471, 1471>>,
     <<1473, 1474>>, <<1476, 1477>>, <<1479, 1479>>, <<1524, 1524>>, <<1536,
     1541>>, <<1552, 1562>>, <<1564, 1564>>, <<1600, 1600>>, <<1611, 1631>>,
     <<1648, 1648>>, <<1750, 1757>>, <<1759, 1768>>, <<1770, 1773>>, <<1807,
     1807>>, <<1809, 1809>>, <<1840, 1866>>, <<1958, 1968>>, <<2027, 2037>>,
     <<2042, 2042>>, <<2045, 2045>>, <<2070, 2093>>, <<2137, 2139>>, <<2184,
     2184>>, <<2192, 2193>>, <<2200, 2207>>, <<2249, 2306>>, <<2362, 2362>>,
     <<2364, 2364>>, <<2369, 2376>>, <<2381, 2381>>, <<2385, 2391>>, <<2402,
     2403>>, <<2417, 2417>>, <<2433, 2433>>, <<2492, 2492>>, <<2497, 2500>>,
     <<2509, 2509>>, <<2530, 2531>>, <<2558, 2558>>, <<2561, 2562>>, <<2620,
     2620>>, <<2625, 2626>>, <<2631, 2632>>, <<2635, 2637>>, <<2641, 2641>>,
     <<2672, 2673>>, <<2677, 2677>>, <<2689, 2690>>, <<2748, 2748>>, <<2753,
     2757>>, <<2759, 2760>>, <<2765, 2765>>, <<2786, 2787>>, <<2810, 2815>>,
     <<2817, 2817>>, <<2876, 2876>>, <<2879, 2879>>, <<2881, 2884>>, <<2893,
     2893>>, <<2901, 2902>>, <<2914, 2915>>, <<2946, 2946>>, <<3008, 3008>>,
     <<3021, 3021>>, <<3072, 3072>>, <<3076, 3076>>, <<3132, 3132>>, <<3134,
     3136>>, <<3142, 3144>>, <<3146, 3149>>, <<3157, 3158>>, <<3170, 3171>>,
     <<3201, 3201>>, <<3260, 3260>>, <<3263, 3263>>, <<3270, 3270>>, <<3276,
     3277>>, <<3298, 3299>>, <<3328, 3329>>, <<3387, 3388>>, <<3393, 3396>>,
     <<3405, 3405>>, <<3426, 3427>>, <<3457, 3457>>, <<3530, 3530>>, <<3538,
     3540>>, <<3542, 3542>>, <<3633, 3633>>, <<3636, 3642>>, <<3654, 3662>>,
     <<3761, 3761>>, <<3764, 3772>>, <<3782, 3782>>, <<3784, 3789>>, <<3864,
     3865>>, <<3893, 3893>>, <<3895, 3895>>, <<3897, 3897>>, <<3953, 3966>>,
     <<3968, 3972>>, <<3974, 3975>>, <<3981, 3991>>, <<3993, 4028>>, <<4038,
     4038>>, <<4141, 4144>>, <<4146, 4151>>, <<4153, 4154>>, <<4157, 4158>>,
     <<4184, 4185>>, <<4190, 4192>>, <<4209, 4212>>, <<4226, 4226>>, <<4229,
     4230>>, <<4237, 4237>>, <<4253, 4253>>, <<4348, 4348>>, <<4957, 4959>>,
     <<5906, 5908>>, <<5938, 5939>>, <<5970, 5971>>, <<6002, 6003>>, <<6068,
     6069>>, <<6071, 6077>>, <<6086, 6086>>, <<6089, 6099>>, <<6103, 6103>>,
     <<6109, 6109>>, <<6155, 6159>>, <<6211, 6211>>, <<6277, 6278>>, <<6313,
     6313>>, <<6432, 6434>>, <<6439, 6440>>, <<6450, 6450>>, <<6457, 6459>>,
     <<6679, 6680>>, <<6683, 6683>>, <<6742, 6742>>, <<6744, 6750>>, <<6752,
     6752>>, <<6754, 6754>>, <<6757, 6764>>, <<6771, 6780>>, <<6783, 6783>>,
     <<6823, 6823>>, <<6832, 6862>>, <<6912, 6915>>, <<6964, 6964>>, <<6966,
     6970>>, <<6972, 6972>>, <<6978, 6978>>, <<7019, 7027>>, <<7040, 7041>>,
     <<7074, 7077>>, <<7080, 7081>>, <<7083, 7085>>, <<7142, 7142>>, <<7144,
     7145>>, <<7149, 7149>>, <<7151, 7153>>, <<7212, 7219>>, <<7222, 7223>>,
     <<7288, 7293>>, <<7376, 7378>>, <<7380, 7392>>, <<7394, 7400>>, <<7405,
     7405>>, <<7412, 7412>>, <<7416, 7417>>, <<7468, 7530>>, <<7544, 7544>>,
     <<7579, 7679>>, <<8125, 8125>>, <<8127, 8129>>, <<8141, 8143>>, <<8157,
     8159>>, <<8173, 8175>>, <<8189, 8190>>, <<8203, 8207>>, <<8216, 8217>>,
     <<8228, 8228>>, <<8231, 8231>>, <<8234, 8238>>, <<8288, 8292>>, <<8294,
     8303>>, <<8305, 8305>>, <<8319, 8319>>, <<8336, 8348>>, <<8400, 8432>>,
     <<11388, 11389>>, <<11503, 11505>>, <<11631, 11631>>, <<11647, 11647>>,
     <<11744, 11775>>, <<11823, 11823>>, <<12293, 12293>>, <<12330, 12333>>,
     <<12337, 12341>>, <<12347, 12347>>, <<12441, 12446>>, <<12540, 12542>>,
     <<40981, 40981>>, <<42232, 42237>>, <<42508, 42508>>, <<42607, 42610>>,
     <<42612, 42621>>, <<42623, 42623>>, <<42652, 42655>>, <<42736, 42737>>,
     <<42752, 42785>>, <<42864, 42864>>, <<42888, 42890>>, <<42994, 42996>>,
     <<43000, 43001>>, <<43010, 43010>>, <<43014, 43014>>, <<43019, 43019>>,
     <<43045, 43046>>, <<43052, 43052>>, <<43204, 43205>>, <<43232, 43249>>,
     <<43263, 43263>>, <<43302, 43309>>, <<43335, 43345>>, <<43392, 43394>>,
     <<43443, 43443>>, <<43446, 43449>>, <<43452, 43453>>, <<43471, 43471>>,
     <<43493, 43494>>, <<43561, 43566>>, <<43569, 43570>>, <<43573, 43574>>,
     <<43587, 43587>>, <<43596, 43596>>, <<43632, 43632>>, <<43644, 43644>>,
     <<43696, 43696>>, <<43698, 43700>>, <<43703, 43704>>, <<43710, 43711>>,
     <<43713, 43713>>, <<43741, 43741>>, <<43756, 43757>>, <<43763, 43764>>,
     <<43766, 43766>>, <<43867, 43871>>, <<43881, 43883>>, <<44005, 44005>>,
     <<44008, 44008>>, <<44013, 44013>>, <<64286, 64286>>, <<64434, 64450>>,
     <<65024, 65039>>, <<65043, 65043>>, <<65056, 65071>>, <<65106, 65106>>,
     <<65109, 65109>>, <<65279, 65279>>, <<65287, 65287>>, <<65294, 65294>>,
     <<65306, 65306>>, <<65342, 65342>>, <<65344, 65344>>, <<65392, 65392>>,
     <<65438, 65439>>, <<65507, 65507>>, <<65529, 65531>>, <<66045, 66045>>,
     <<66272, 66272>>, <<66422, 66426>>, <<67456, 67461>>, <<67463, 67504>>,
     <<67506, 67514>>, <<68097, 68099>>, <<68101, 68102>>, <<68108, 68111>>,
     <<68152, 68154>>, <<68159, 68159>>, <<68325, 68326>>, <<68900, 68903>>,
     <<69291, 69292>>, <<69446, 69456>>, <<69506, 69509>>, <<69633, 69633>>,
     <<69688, 69702>>, <<69744, 69744>>, <<69747, 69748>>, <<69759, 69761>>,
     <<69811, 69814>>, <<69817, 69818>>, <<69821, 69821>>, <<69826, 69826>>,
     <<69837, 69837>>, <<69888, 69890>>, <<69927, 69931>>, <<69933, 69940>>,
     <<70003, 70003>>, <<70016, 70017>>, <<70070, 70078>>, <<70089, 70092>>,
     <<70095, 70095>>, <<70191, 70193>>, <<70196, 70196>>, <<70198, 70199>>,
     <<70206, 70206>>, <<70367, 70367>>, <<70371, 70378>>, <<70400, 70401>>,
     <<70459, 70460>>, <<70464, 70464>>, <<70502, 70508>>, <<70512, 70516>>,
     <<70712, 70719>>, <<70722, 70724>>, <<70726, 70726>>, <<70750, 70750>>,
     <<70835, 70840>>, <<70842, 70842>>, <<70847, 70848>>, <<70850, 70851>>,
     <<71090, 71093>>, <<71100, 71101>>, <<71103, 71104>>, <<71132, 71133>>,
     <<71219, 71226>>, <<71229, 71229>>, <<71231, 71232>>, <<71339, 71339>>,
     <<71341, 71341>>, <<71344, 71349>>, <<71351, 71351>>, <<71453, 71455>>,
     <<71458, 71461>>, <<71463, 71467>>, <<71727, 71735>>, <<71737, 71738>>,
     <<71995, 71996>>, <<71998, 71998>>, <<72003, 72003>>, <<72148, 72151>>,
     <<72154, 72155>>, <<72160, 72160>>, <<72193, 72202>>, <<72243, 72248>>,
     <<72251, 72254>>, <<72263, 72263>>, <<72273, 72278>>, <<72281, 72283>>,
     <<72330, 72342>>, <<72344, 72345>>, <<72752, 72758>>, <<72760, 72765>>,
     <<72767, 72767>>, <<72850, 72871>>, <<72874, 72880>>, <<72882, 72883>>,
     <<72885, 72886>>, <<73009, 73014>>, <<73018, 73018>>, <<73020, 73021>>,
     <<73023, 73029>>, <<73031, 73031>>, <<73104, 73105>>, <<73109, 73109>>,
     <<73111, 73111>>, <<73459, 73460>>, <<78896, 78904>>, <<92912, 92916>>,
     <<92976, 92982>>, <<92992, 92995>>, <<94031, 94031>>, <<94095, 94111>>,
     <<94176, 94177>>, <<94179, 94180>>, <<110576, 110579>>, <<110581,
     110587>>, <<110589, 110590>>, <<113821, 113822>>, <<113824, 113827>>,
     <<118528, 118573>>, <<118576, 118598>>, <<119143, 119145>>, <<119155,
     119170>>, <<119173, 119179>>, <<119210, 119213>>, <<119362, 119364>>,
     <<121344, 121398>>, <<121403, 121452>>, <<121461, 121461>>, <<121476,
     121476>>, <<121499, 121503>>, <<121505, 121519>>, <<122880, 122886>>,
     <<122888, 122904>>, <<122907, 122913>>, <<122915, 122916>>, <<122918,
     122922>>, <<123184, 123197>>, <<123566, 123566>>, <<123628, 123631>>,
     <<125136, 125142>>, <<125252, 125259>>, <<127995, 127999>>, <<917505,
     917505>>, <<917536, 917631>>, <<917760, 917999>>}

IsCaseIgnorable(c) == InRanges(c, CaseIgnorableRanges)

\* s[i], a capital sigma, is in the Final_Sigma context: the nearest
\* character before it that is not case-ignorable is cased, and the nearest
\* such character after it, if any, is not
final_sigma(s, i) ==
    /\ \E j \in 1..(i - 1) :
          /\ ~IsCaseIgnorable(s[j]) /\ IsCased(s[j])
          /\ \A k \in (j + 1)..(i - 1) : IsCaseIgnorable(s[k])
    /\ ~\E j \in (i + 1)..Len(s) :
          /\ ~IsCaseIgnorable(s[j]) /\ IsCased(s[j])
          /\ \A k \in (i + 1)..(j - 1) : IsCaseIgnorable(s[k])

RECURSIVE str_lower_from(_, _)
\* the lower case of s[i..]: each character's own, a capital sigma's by its
\* context
str_lower_from(s, i) ==
    IF i > Len(s) THEN <<>>
    ELSE (IF s[i] = 931
          THEN <<IF final_sigma(s, i) THEN 962 ELSE 963>>
          ELSE lower_ch(s[i]))
         \o str_lower_from(s, i + 1)

\* str.lower()
str_lower(s) == str_lower_from(s, 1)

RECURSIVE str_lstrip_chars(_, _)
str_lstrip_chars(s, chars) ==
    IF s # <<>> /\ Head(s) \in chars THEN str_lstrip_chars(Tail(s), chars) ELSE s

RECURSIVE str_rstrip_chars(_, _)
str_rstrip_chars(s, chars) ==
    IF s # <<>> /\ s[Len(s)] \in chars
    THEN str_rstrip_chars(SubSeq(s, 1, Len(s) - 1), chars)
    ELSE s

\* str.strip(chars)
str_strip_chars(s, chars) == str_rstrip_chars(str_lstrip_chars(s, chars), chars)

\* str.strip()
str_strip(s) == str_strip_chars(s, WhiteSpace)

\* str.startswith(prefix)
str_startswith(s, prefix) ==
    /\ Len(prefix) <= Len(s)
    /\ SubSeq(s, 1, Len(prefix)) = prefix

\* str.find(c) + 1 for a one-character c: the first index of c, 0 when absent
str_find(s, c) ==
    IF \E i \in 1..Len(s) : s[i] = c
    THEN CHOOSE i \in 1..Len(s) : s[i] = c /\ \A j \in 1..(i - 1) : s[j] # c
    ELSE 0

\* str.split(sep, 1) for a one-character sep
str_split_1(s, sep) ==
    LET i == str_find(s, sep)
    IN  IF i = 0 THEN <<s>>
        ELSE <<SubSeq(s, 1, i - 1), SubSeq(s, i + 1, Len(s))>>

RECURSIVE str_split(_, _)
\* str.split(sep) for a one-character sep
str_split(s, sep) ==
    LET i == str_find(s, sep)
    IN  IF i = 0 THEN <<s>>
        ELSE <<SubSeq(s, 1, i - 1)>> \o str_split(SubSeq(s, i + 1, Len(s)), sep)

RECURSIVE splitlines_from(_, _, _)
splitlines_from(s, i, cur) ==
    IF i > Len(s) THEN (IF cur = <<>> THEN <<>> ELSE <<cur>>)
    ELSE IF IsLineBreak(s[i])
         THEN LET crlf == s[i] = 13 /\ i < Len(s) /\ s[i + 1] = 10
              IN  <<cur>> \o splitlines_from(s, IF crlf THEN i + 2 ELSE i + 1, <<>>)
         ELSE splitlines_from(s, i + 1, Append(cur, s[i]))

\* str.splitlines()
str_splitlines(s) == splitlines_from(s, 1, <<>>)

\* list[-1]
py_last(l) == l[Len(l)]

-----------------------------------------------------------------------------
(* stats.extract_terms                                                     *)

\* "##"
HeadingMarker == <<35, 35>>

\* variant of extract_line_term that forgets .lower()
extract_line_term_no_lower(stripped) ==
    str_strip(py_last(str_split_1(stripped, 46)))

\* stripped.split(".", 1)[-1].strip().lower()
extract_line_term(stripped) ==
    str_lower(str_strip(py_last(str_split_1(stripped, 46))))

RECURSIVE extract_terms_loop(_, _)
\* the body of the loop over the lines, with the list built so far
extract_terms_loop(lines, acc) ==
    IF lines = <<>> THEN acc
    ELSE LET stripped == str_strip(Head(lines))
             term == extract_line_term(stripped)
         IN  IF str_startswith(stripped, HeadingMarker) /\ term # <<>>
             THEN extract_terms_loop(Tail(lines), Append(acc, term))
             ELSE extract_terms_loop(Tail(lines), acc)

extract_terms(md) == extract_terms_loop(str_splitlines(md), <<>>)

-----------------------------------------------------------------------------
(* stats.count_frequencies: the pattern r"\b" + re.escape(term) + r"\b"     *)
(* and re.findall over the lower-cased text.                               *)

\* re._special_chars_map: the characters re.escape() puts a backslash before,
\* b'()[]{}?*+-|^$\\.&~# \t\n\r\v\f'
ReSpecialChars ==
    {40, 41, 91, 93, 123, 125, 63, 42, 43, 45, 124, 94, 36, 92, 46, 38, 126,
     35, 32, 9, 10, 13, 11, 12}

RECURSIVE re_escape(_)
\* re.escape(term)
re_escape(s) ==
    IF s = <<>> THEN <<>>
    ELSE (IF Head(s) \in ReSpecialChars THEN <<92, Head(s)>> ELSE <<Head(s)>>)
         \o re_escape(Tail(s))

RECURSIVE re_compile(_)
\* The pattern as the regular expression engine reads it: "\b" is a word
\* boundary, a backslash before another character makes it a literal, an
\* unescaped "." matches any character but a newline, any other character
\* the patterns of this program hold is a literal.
re_compile(p) ==
    IF p = <<>> THEN <<>>
    ELSE IF Head(p) = 92 /\ Len(p) >= 2
         THEN <<IF p[2] = 98 THEN [kind |-> "boundary", ch |-> 0]
                ELSE [kind |-> "literal", ch |-> p[2]]>>
              \o re_compile(SubSeq(p, 3, Len(p)))
         ELSE <<IF Head(p) = 46 THEN [kind |-> "any", ch |-> 0]
                ELSE [kind |-> "literal", ch |-> Head(p)]>>
              \o re_compile(Tail(p))

\* \b at the gap before s[p] (p in 1..Len(s)+1): exactly one of the two
\* neighbours is a word character; outside the string counts as non-word
re_at_boundary(s, p) ==
    LET before == p >= 2 /\ IsWord(s[p - 1])
        after == p <= Len(s) /\ IsWord(s[p])
    IN  before # after

RECURSIVE re_match_from(_, _, _, _)
\* The position after the match of tokens[k..] that starts at the gap before
\* s[p], or 0 when there is none (the patterns have no alternatives).
re_match_from(tokens, k, s, p) ==
    IF k > Len(tokens) THEN p
    ELSE LET t == tokens[k]
         IN  IF t.kind = "boundary"
             THEN (IF re_at_boundary(s, p) THEN re_match_from(tokens, k + 1, s, p)
                   ELSE 0)
             ELSE IF p <= Len(s)
                     /\ (IF t.kind = "any" THEN s[p] # 10 ELSE s[p] = t.ch)
                  THEN re_match_from(tokens, k + 1, s, p + 1)
                  ELSE 0

RECURSIVE re_findall_from(_, _, _, _)
re_findall_from(tokens, s, p, n) ==
    IF p > Len(s) + 1 THEN n
    ELSE LET e == re_match_from(tokens, 1, s, p)
         IN  IF e = 0 THEN re_findall_from(tokens, s, p + 1, n)
             ELSE re_findall_from(tokens, s, IF e > p THEN e ELSE p + 1, n + 1)

\* len(re.findall(pattern, s)): the matches, left to right, each search
\* starting where the previous match ended
re_findall_len(pattern, s) == re_findall_from(re_compile(pattern), s, 1, 0)

\* r"\b" + re.escape(term) + r"\b"
term_pattern(term) == <<92, 98>> \o re_escape(term) \o <<92, 98>>

\* A dict keeps its keys in the order of their first insertion; it is the
\* sequence of its items.
dict_keys(d) == [i \in 1..Len(d) |-> d[i].term]

dict_has(d, k) == \E i \in 1..Len(d) : d[i].term = k

\* dict.get(k, default)
dict_get(d, k, default) ==
    IF dict_has(d, k) THEN d[CHOOSE i \in 1..Len(d) : d[i].term = k].count
    ELSE default

\* variant of dict_set that adds an item even when the key is present
dict_set_append(d, k, v) == Append(d, [term |-> k, count |-> v])

\* d[k] = v
dict_set(d, k, v) ==
    IF dict_has(d, k)
    THEN [i \in 1..Len(d) |-> IF d[i].term = k THEN [term |-> k, count |-> v]
                              ELSE d[i]]
    ELSE Append(d, [term |-> k, count |-> v])

\* the count of one term: lines 82-88
count_term(text_lower, term) ==
    IF term = <<>> THEN 0
    ELSE re_findall_len(term_pattern(term), text_lower)

RECURSIVE count_frequencies_loop(_, _, _)
count_frequencies_loop(text_lower, ts, freq) ==
    IF ts = <<>> THEN freq
    ELSE count_frequencies_loop(text_lower, Tail(ts),
             dict_set(freq, Head(ts), count_term(text_lower, Head(ts))))

count_frequencies(text, ts) == count_frequencies_loop(str_lower(text), ts, <<>>)

-----------------------------------------------------------------------------
(* stats._get_top_terms                                                    *)

\* top_k=3, the default of _get_top_terms and the argument build_graph passes
TopK == 3

RECURSIVE str_lt(_, _)
\* a < b of two str: by code point, a proper prefix first
str_lt(a, b) ==
    IF b = <<>> THEN FALSE
    ELSE IF a = <<>> THEN TRUE
    ELSE IF Head(a) # Head(b) THEN Head(a) < Head(b)
    ELSE str_lt(Tail(a), Tail(b))

\* variant of top_key_lt that compares the counts alone
top_key_lt_count_only(x, y) == (0 - x.count) < (0 - y.count)

\* key(x) < key(y) for the key lambda x: (-x[1], x[0])
top_key_lt(x, y) ==
    \/ (0 - x.count) < (0 - y.count)
    \/ (0 - x.count) = (0 - y.count) /\ str_lt(x.term, y.term)

RECURSIVE insert_sorted(_, _)
\* x put behind every item whose key is not greater than its own
insert_sorted(sorted, x) ==
    IF sorted = <<>> THEN <<x>>
    ELSE IF top_key_lt(x, Head(sorted)) THEN <<x>> \o sorted
    ELSE <<Head(sorted)>> \o insert_sorted(Tail(sorted), x)

RECURSIVE sort_by_top_key(_, _)
\* list.sort(key=...): stable, ascending by key
sort_by_top_key(l, sorted) ==
    IF l = <<>> THEN sorted
    ELSE sort_by_top_key(Tail(l), insert_sorted(sorted, Head(l)))

\* l[:n]: a negative n counts from the end of the list
py_slice_to(l, n) ==
    LET stop == IF n < 0 THEN Len(l) + n ELSE n
    IN  SubSeq(l, 1, IF stop < 0 THEN 0 ELSE IF stop < Len(l) THEN stop ELSE Len(l))

_get_top_terms(freq, top_k) ==
    LET non_zero == SelectSeq(freq, LAMBDA item : item.count > 0)
    IN  IF non_zero = <<>> THEN <<>>
        ELSE dict_keys(py_slice_to(sort_by_top_key(non_zero, <<>>), top_k))

-----------------------------------------------------------------------------
(* stats.build_graph, up to the graph structure G (the drawing reads G and  *)
(* changes nothing).                                                       *)

\* "Generative AI Applications"
center_label ==
    <<71, 101, 110, 101, 114, 97, 116, 105, 118, 101, 32, 65, 73, 32,
      65, 112, 112, 108, 105, 99, 97, 116, 105, 111, 110, 115>>

\* size=3200 of the center node
CenterSize == 3200
\* size=1800 + count * 400 of a term node
NodeBaseSize == 1800
NodeSizeScale == 400

\* nx.Graph(): nodes and edges are dicts, an undirected edge is keyed by the
\* set of its two ends
EmptyGraph == [nodes |-> [n \in {} |-> 0], edges |-> [e \in {} |-> 0]]

\* G.add_node(n, **attr)
add_node(g, n, attr) ==
    [g EXCEPT !.nodes = [m \in DOMAIN g.nodes \cup {n} |->
                            IF m = n THEN attr ELSE g.nodes[m]]]

\* G.add_edge(u, v, weight=w): an end that is no node yet becomes one,
\* without attributes
add_edge(g, u, v, w) ==
    LET ends == {u, v}
        nodes2 == [m \in DOMAIN g.nodes \cup ends |->
                      IF m \in DOMAIN g.nodes THEN g.nodes[m]
                      ELSE [role |-> "none", freq |-> 0, size |-> 0]]
    IN  [nodes |-> nodes2,
         edges |-> [e \in DOMAIN g.edges \cup {ends} |->
                       IF e = ends THEN [weight |-> w] ELSE g.edges[e]]]

\* variant of used_terms_of that keeps every term
used_terms_of_all(freq) == freq

\* variant of used_terms_of with count >= 0
used_terms_of_ge(freq) == SelectSeq(freq, LAMBDA item : item.count >= 0)

\* {term: count for term, count in freq.items() if count > 0}
used_terms_of(freq) == SelectSeq(freq, LAMBDA item : item.count > 0)

RECURSIVE add_term_nodes(_, _, _)
\* the loop over used_terms.items()
add_term_nodes(g, used, top_terms) ==
    IF used = <<>> THEN g
    ELSE LET term == Head(used).term
             count == Head(used).count
             g1 == add_node(g, term,
                       [role |-> IF term \in top_terms THEN "top" ELSE "normal",
                        freq |-> count,
                        size |-> NodeBaseSize + count * NodeSizeScale])
         IN  add_term_nodes(add_edge(g1, center_label, term, count),
                            Tail(used), top_terms)

\* the graph build_graph constructs when some term is used
graph_of(freq) ==
    LET toplist == _get_top_terms(freq, TopK)
        top_terms == {toplist[i] : i \in 1..Len(toplist)}
        g0 == add_node(EmptyGraph, center_label,
                  [role |-> "center", freq |-> 0, size |-> CenterSize])
    IN  add_term_nodes(g0, used_terms_of(freq), top_terms)

\* build_graph(freq): the image it saves and the graph structure behind it;
\* with no used term it saves the message image and constructs no graph
build_graph(freq) ==
    IF used_terms_of(freq) = <<>>
    THEN [image |-> "message", graph |-> EmptyGraph]
    ELSE [image |-> "graph", graph |-> graph_of(freq)]

-----------------------------------------------------------------------------
(* generate_vocab_graph.py: the script reads vocabulary.md and             *)
(* usage_stats.json and draws one node per vocabulary term.                *)

\* s=1800 of the center node
NeonCenterSize == 1800
\* size = 800 if term.lower() in top_terms else 650
NeonTopSize == 800
NeonNormalSize == 650

\* "- "
DashPrefix == <<45, 32>>

RECURSIVE neon_vocab_terms_loop(_)
neon_vocab_terms_loop(lines) ==
    IF lines = <<>> THEN <<>>
    ELSE (IF str_startswith(Head(lines), DashPrefix)
          THEN <<str_strip(str_strip_chars(Head(lines), {45, 32}))>>
          ELSE <<>>)
         \o neon_vocab_terms_loop(Tail(lines))

\* [line.strip("- ").strip() for line in vocab_text.split("\n")
\*  if line.startswith("- ")]
neon_vocab_terms(text) == neon_vocab_terms_loop(str_split(text, 10))

RECURSIVE neon_insert_desc(_, _)
\* x put behind every item whose count is not smaller than its own
neon_insert_desc(sorted, x) ==
    IF sorted = <<>> THEN <<x>>
    ELSE IF x.count > Head(sorted).count THEN <<x>> \o sorted
    ELSE <<Head(sorted)>> \o neon_insert_desc(Tail(sorted), x)

RECURSIVE neon_sorted_terms(_, _)
\* sorted(stats.items(), key=lambda x: x[1], reverse=True): stable, items of
\* equal count keep the order of the dict
neon_sorted_terms(items, sorted) ==
    IF items = <<>> THEN sorted
    ELSE neon_sorted_terms(Tail(items), neon_insert_desc(sorted, Head(items)))

\* set([t for t, c in sorted_terms[:3]])
neon_top_terms(stats) ==
    LET first == py_slice_to(neon_sorted_terms(stats, <<>>), 3)
    IN  {first[i].term : i \in 1..Len(first)}

\* the node the loop draws for one vocabulary term, and its edge to the center
neon_node(stats, term) ==
    LET is_top == str_lower(term) \in neon_top_terms(stats)
    IN  [label |-> term,
         role |-> IF is_top THEN "top" ELSE "normal",
         freq |-> dict_get(stats, str_lower(term), 0),
         size |-> IF is_top THEN NeonTopSize ELSE NeonNormalSize]

neon_graph(stats, text) ==
    LET vocab_terms == neon_vocab_terms(text)
    IN  [center |-> [label |-> center_label, size |-> NeonCenterSize],
         nodes |-> [i \in 1..Len(vocab_terms) |-> neon_node(stats, vocab_terms[i])],
         edges |-> [i \in 1..Len(vocab_terms) |-> <<center_label, vocab_terms[i]>>]]

NoNeon == [center |-> [label |-> <<>>, size |-> 0], nodes |-> <<>>, edges |-> <<>>]

-----------------------------------------------------------------------------
(* The inputs.                                                             *)

\* vocabulary lines of SpecExtract: indentation, "#" marks, then a body
VocabLeads == {<<>>, <<32>>}
VocabMarks == {<<>>, <<35>>, <<35, 35>>}
\* "", "a", ".a", ". A", "a.", "a.A ", "..", ". ", " A a"
VocabBodies ==
    {<<>>, <<97>>, <<46, 97>>, <<46, 32, 65>>, <<97, 46>>, <<97, 46, 65, 32>>,
     <<46, 46>>, <<46, 32>>, <<32, 65, 32, 97>>}
VocabLines == {l \o m \o b : l \in VocabLeads, m \in VocabMarks, b \in VocabBodies}
VocabDocs == {Join(ls, <<10>>) : ls \in SeqsUpTo(VocabLines, MaxLines)}

\* characters of the research text and of the terms of Spec: "a", "A", " ", "."
CountAlphabet == {97, 65, 32, 46}

\* the terms of at most n characters that str.strip() leaves as they are,
\* as every term extract_terms returns is; the empty term is one of them
StrippedTerms(n) ==
    {t \in SeqsUpTo(CountAlphabet, n) : t = <<>> \/ (t[1] # 32 /\ t[Len(t)] # 32)}

RECURSIVE TermListsWithin(_)
\* the term lists whose terms take at most n places, a term one place more
\* than its length
TermListsWithin(n) ==
    IF n <= 0 THEN {<<>>}
    ELSE {<<>>} \cup
         UNION {{<<t>> \o rest : rest \in TermListsWithin(n - 1 - Len(t))} :
                   t \in StrippedTerms(n - 1)}

\* terms of the frequency maps of SpecGraph and SpecScripts: "a", "B", "ab",
\* "c", "d"
GraphTerms == {<<97>>, <<66>>, <<97, 98>>, <<99>>, <<100>>}

\* the dict of the keys ks with the counts cs
dict_of(ks, cs) == [i \in 1..Len(ks) |-> [term |-> ks[i], count |-> cs[i]]]

\* d is a dict count_frequencies can return: at most maxKeys distinct terms
\* of T with counts 0..maxCount, and a count above 0 only for a term that is
\* its own lower case, the terms being searched in text.lower()
IsFreqMap(d, T, maxKeys, maxCount) ==
    \E k \in 0..maxKeys :
        \E ks \in [1..k -> T] :
            /\ \A i, j \in 1..k : i # j => ks[i] # ks[j]
            /\ \E cs \in [1..k -> 0..maxCount] :
                  /\ \A i \in 1..k : cs[i] > 0 => str_lower(ks[i]) = ks[i]
                  /\ d = dict_of(ks, cs)

\* vocabulary lines of SpecScripts: "- a", "- B", "- Ab", "c", "-  d -"
NeonLines ==
    {<<45, 32, 97>>, <<45, 32, 66>>, <<45, 32, 65, 98>>, <<99>>,
     <<45, 32, 32, 100, 32, 45>>}
NeonDocs == {Join(ls, <<10>>) : ls \in SeqsUpTo(NeonLines, MaxNeonLines)}

-----------------------------------------------------------------------------
(* The operations.                                                         *)

\* terms = extract_terms(vocab_text) of main
ExtractTerms ==
    /\ pc = "vocab_loaded"
    /\ terms' = extract_terms(vocab_md)
    /\ pc' = "extracted"
    /\ UNCHANGED <<vocab_md, research_text, frequencies, top, G, vocab_text, neon>>

\* freq = count_frequencies(research_text, terms) of main
CountFrequencies ==
    /\ pc = "loaded"
    /\ frequencies' = count_frequencies(research_text, terms)
    /\ pc' = "counted"
    /\ UNCHANGED <<vocab_md, terms, research_text, top, G, vocab_text, neon>>

\* _get_top_terms(freq, top_k=3)
GetTopTerms ==
    /\ pc = "counted"
    /\ top' = _get_top_terms(frequencies, TopK)
    /\ pc' = "ranked"
    /\ UNCHANGED <<vocab_md, terms, research_text, frequencies, G, vocab_text, neon>>

\* build_graph(freq) of main
BuildGraph ==
    /\ pc = "counted"
    /\ LET built == build_graph(frequencies)
       IN  /\ G' = built.graph
           /\ pc' = IF built.image = "message" THEN "no_terms" ELSE "graph_built"
    /\ UNCHANGED <<vocab_md, terms, research_text, frequencies, top, vocab_text, neon>>

\* generate_vocab_graph.py, run on the usage_stats.json stats.py has written
NeonGraph ==
    /\ pc \in {"no_terms", "graph_built"}
    /\ neon' = neon_graph(frequencies, vocab_text)
    /\ pc' = "neon_done"
    /\ UNCHANGED <<vocab_md, terms, research_text, frequencies, top, G, vocab_text>>

-----------------------------------------------------------------------------
(* The specifications.                                                     *)

\* count_frequencies and build_graph, as main runs them
Init ==
    /\ pc = "loaded"
    /\ research_text \in SeqsUpTo(CountAlphabet, MaxTextLen)
    /\ terms \in TermListsWithin(MaxTermChars)
    /\ vocab_md = <<>> /\ frequencies = <<>> /\ top = <<>>
    /\ G = EmptyGraph /\ vocab_text = <<>> /\ neon = NoNeon

Next == CountFrequencies \/ BuildGraph

Spec == Init /\ [][Next]_vars

\* extract_terms over vocabulary documents
InitExtract ==
    /\ pc = "vocab_loaded"
    /\ vocab_md \in VocabDocs
    /\ terms = <<>> /\ research_text = <<>> /\ frequencies = <<>> /\ top = <<>>
    /\ G = EmptyGraph /\ vocab_text = <<>> /\ neon = NoNeon

NextExtract == ExtractTerms

SpecExtract == InitExtract /\ [][NextExtract]_vars

\* _get_top_terms and build_graph over frequency maps
InitGraph ==
    /\ pc = "counted"
    /\ IsFreqMap(frequencies, GraphTerms, MaxKeys, MaxCount)
    /\ vocab_md = <<>> /\ terms = <<>> /\ research_text = <<>> /\ top = <<>>
    /\ G = EmptyGraph /\ vocab_text = <<>> /\ neon = NoNeon

NextGraph == GetTopTerms \/ BuildGraph

SpecGraph == InitGraph /\ [][NextGraph]_vars

\* the two graph scripts, stats.py then generate_vocab_graph.py
InitScripts ==
    /\ pc = "counted"
    /\ IsFreqMap(frequencies, GraphTerms, MaxStatsKeys, MaxCount)
    /\ vocab_text \in NeonDocs
    /\ vocab_md = <<>> /\ terms = <<>> /\ research_text = <<>> /\ top = <<>>
    /\ G = EmptyGraph /\ neon = NoNeon

NextScripts == BuildGraph \/ NeonGraph

SpecScripts == InitScripts /\ [][NextScripts]_vars

-----------------------------------------------------------------------------
(* What the specification says, stated without the operators above.        *)

SetMin(S) == CHOOSE x \in S : \A y \in S : x <= y
SetMax(S) == CHOOSE x \in S : \A y \in S : y <= x
Range(f) == {f[i] : i \in DOMAIN f}

\* s without its leading and trailing whitespace
Trimmed(s) ==
    LET inked == {i \in 1..Len(s) : ~IsSpace(s[i])}
    IN  IF inked = {} THEN <<>> ELSE SubSeq(s, SetMin(inked), SetMax(inked))

Lowered(s) == [i \in 1..Len(s) |-> IF s[i] \in 65..90 THEN s[i] + 32 ELSE s[i]]
Uppered(s) == [i \in 1..Len(s) |-> IF s[i] \in 97..122 THEN s[i] - 32 ELSE s[i]]

\* the lines of a document whose only line break is "\n"
RECURSIVE LinesOf(_)
LinesOf(md) ==
    LET feeds == {i \in 1..Len(md) : md[i] = 10}
    IN  IF feeds = {} THEN <<md>>
        ELSE <<SubSeq(md, 1, SetMin(feeds) - 1)>>
             \o LinesOf(SubSeq(md, SetMin(feeds) + 1, Len(md)))

IsTermLine(l) ==
    LET t == Trimmed(l) IN Len(t) >= 2 /\ t[1] = 35 /\ t[2] = 35

HasDot(l) == \E i \in 1..Len(l) : l[i] = 46

\* the text after the first "." of a line that has one, trimmed and lower-cased
TermAfterDot(l) ==
    LET dots == {i \in 1..Len(l) : l[i] = 46}
    IN  Lowered(Trimmed(SubSeq(l, SetMin(dots) + 1, Len(l))))

\* the text after the "##" marker of a term line, trimmed and lower-cased
TermAfterMarker(l) ==
    LET t == Trimmed(l) IN Lowered(Trimmed(SubSeq(t, 3, Len(t))))

TermLinesOf(md) == SelectSeq(LinesOf(md), IsTermLine)

\* Term(l) of every line, in order, the empty ones left out
NonEmptyTerms(lines, Term(_)) ==
    SelectSeq([i \in 1..Len(lines) |-> Term(lines[i])], LAMBDA t : t # <<>>)

AllTermLinesDotted(md) == \A l \in Range(TermLinesOf(md)) : HasDot(l)
NoTermLineDotted(md) == \A l \in Range(TermLinesOf(md)) : ~HasDot(l)

\* C7: extract_terms returns, in document order and with duplicates kept,
\* one term per "##" line: the text after the line's first ".", trimmed and
\* lower-cased; an empty term is not emitted, no emitted term is empty, and a
\* text without a "##" line gives the empty sequence.  (What a "##" line
\* without a "." gives is C8's subject.)
C7_ExtractTerms ==
    pc = "extracted" =>
        /\ AllTermLinesDotted(vocab_md) =>
               terms = NonEmptyTerms(TermLinesOf(vocab_md), TermAfterDot)
        /\ \A i \in 1..Len(terms) : terms[i] # <<>>
        /\ Len(terms) <= Len(TermLinesOf(vocab_md))
        /\ TermLinesOf(vocab_md) = <<>> => terms = <<>>

\* two dotted "##" lines, one with a capital letter, give the same term twice
C7_Witness ==
    /\ pc = "extracted"
    /\ Len(TermLinesOf(vocab_md)) = 2
    /\ AllTermLinesDotted(vocab_md)
    /\ \E i \in 1..Len(vocab_md) : vocab_md[i] = 65
    /\ Len(terms) = 2 /\ terms[1] = terms[2]

\* C8: a "##" line without a "." gives the text after the marker, trimmed
\* and lower-cased, and gives nothing when no text follows the marker.
C8_LineWithoutDot ==
    pc = "extracted" /\ NoTermLineDotted(vocab_md) =>
        terms = NonEmptyTerms(TermLinesOf(vocab_md), TermAfterMarker)

\* t stands at position p of s, letter case set aside
OccursAt(t, s, p) ==
    /\ p + Len(t) - 1 <= Len(s)
    /\ Lowered(SubSeq(s, p, p + Len(t) - 1)) = Lowered(t)

\* t occurs somewhere in s, letter case set aside
OccursIn(t, s) == \E p \in 1..Len(s) : OccursAt(t, s, p)

\* the occurrence of t at position p of s is no part of a larger word: no
\* word character stands right before it or right after it
WholeWordAt(t, s, p) ==
    /\ OccursAt(t, s, p)
    /\ ~(p >= 2 /\ IsWord(s[p - 1]))
    /\ ~(p + Len(t) <= Len(s) /\ IsWord(s[p + Len(t)]))

RECURSIVE WholeWordCount(_, _, _)
\* the whole-word occurrences of t in s from position p on, left to right,
\* none overlapping the one counted before it
WholeWordCount(t, s, p) ==
    IF p > Len(s) THEN 0
    ELSE IF WholeWordAt(t, s, p) THEN 1 + WholeWordCount(t, s, p + Len(t))
    ELSE WholeWordCount(t, s, p + 1)

\* C1: the count of every term is the number of its non-overlapping
\* occurrences, left to right and as a literal string (letter case set
\* aside), that are not part of a larger word.
C1_WholeWordCount ==
    pc = "counted" =>
        \A i \in 1..Len(terms) :
            terms[i] # <<>> =>
                dict_get(frequencies, terms[i], -1)
                    = WholeWordCount(terms[i], research_text, 1)

\* C2: the count of a term does not change with the letter case of the term
\* or of the text.
C2_CaseInsensitive ==
    pc = "counted" =>
        \A i \in 1..Len(terms) :
            LET t == terms[i]
                n == dict_get(frequencies, t, -1)
            IN  /\ n = dict_get(count_frequencies(research_text, <<Lowered(t)>>),
                                Lowered(t), -1)
                /\ n = dict_get(count_frequencies(Uppered(research_text), <<Uppered(t)>>),
                                Uppered(t), -1)

\* C3: the keys of the returned map are exactly the distinct terms of the
\* list, one entry each; every value is a non-negative integer; a term that
\* does not occur in the text has 0; no terms give the empty map and the
\* empty text gives only zeros.
C3_FrequencyMap ==
    pc = "counted" =>
        /\ Range(dict_keys(frequencies)) = Range(terms)
        /\ Len(frequencies) = Cardinality(Range(terms))
        /\ \A i \in 1..Len(frequencies) :
               /\ frequencies[i].count \in Nat
               /\ ~OccursIn(frequencies[i].term, research_text)
                      => frequencies[i].count = 0
        /\ terms = <<>> => frequencies = <<>>
        /\ research_text = <<>> =>
               \A i \in 1..Len(frequencies) : frequencies[i].count = 0

\* a list that names a term of the text twice, and a term the text lacks
C3_Witness ==
    /\ pc = "counted"
    /\ \E i, j \in 1..Len(terms) :
           i # j /\ terms[i] = terms[j] /\ terms[i] # <<>>
           /\ dict_get(frequencies, terms[i], 0) > 0
    /\ \E i \in 1..Len(frequencies) : frequencies[i].count = 0

\* C10: with no count above 0 (the empty map too) build_graph returns with
\* the empty model, no term node and no edge, _get_top_terms gives the empty
\* list, and the frequency map still holds every term, with value 0.
C10_EmptyModel ==
    (/\ pc \in {"no_terms", "graph_built"}
     /\ \A i \in 1..Len(frequencies) : frequencies[i].count = 0) =>
        /\ pc = "no_terms"
        /\ DOMAIN G.nodes \ {center_label} = {}
        /\ DOMAIN G.edges = {}
        /\ _get_top_terms(frequencies, TopK) = <<>>
        /\ Range(dict_keys(frequencies)) = Range(terms)
        /\ Len(frequencies) = Cardinality(Range(terms))

\* two terms, neither in the text, and build_graph has returned
C10_Witness ==
    /\ pc = "no_terms"
    /\ Len(frequencies) = 2
    /\ research_text # <<>>
    /\ \A i \in 1..Len(frequencies) :
           frequencies[i].count = 0 /\ frequencies[i].term # <<>>

\* a < b by code point, a proper prefix first
CodePointLess(a, b) ==
    \E i \in 1..(Len(b)) :
        /\ \A j \in 1..(i - 1) : j <= Len(a) /\ a[j] = b[j]
        /\ (i > Len(a) \/ (i <= Len(a) /\ a[i] < b[i]))
        /\ i - 1 <= Len(a)

\* a < b alphabetically, letter case set aside
AlphabeticLess(a, b) == CodePointLess(Lowered(a), Lowered(b))

UsedItems(freq) == {freq[i] : i \in {j \in 1..Len(freq) : freq[j].count > 0}}

\* x comes before y: the higher count first, equal counts by Less on the terms
ComesBefore(x, y, Less(_, _)) ==
    \/ x.count > y.count
    \/ x.count = y.count /\ Less(x.term, y.term)

\* t lists the first k used terms of freq in the order ComesBefore gives
IsTopList(t, freq, k, Less(_, _)) ==
    /\ Len(t) = (IF Cardinality(UsedItems(freq)) < k
                 THEN Cardinality(UsedItems(freq)) ELSE k)
    /\ \A i \in 1..Len(t) :
           \E x \in UsedItems(freq) :
               /\ x.term = t[i]
               /\ Cardinality({y \in UsedItems(freq) : ComesBefore(y, x, Less)})
                      = i - 1

\* the items of freq in the order p of their places
Reordered(freq, p) == [i \in 1..Len(freq) |-> freq[p[i]]]

\* C4: the top list is ordered by count descending, ties by ascending
\* case-insensitive alphabetical order of the terms, it holds the first TopK
\* used terms of that order, and it is the list returned for every insertion
\* order of the same map.
C4_CaseInsensitiveTies ==
    pc = "ranked" =>
        /\ IsTopList(top, frequencies, TopK, AlphabeticLess)
        /\ \A i, j \in 1..Len(top) :
               i < j => \E x, y \in UsedItems(frequencies) :
                           /\ x.term = top[i] /\ y.term = top[j]
                           /\ ComesBefore(x, y, AlphabeticLess)
        /\ \A p \in Permutations(1..Len(frequencies)) :
               _get_top_terms(Reordered(frequencies, p), TopK) = top

\* four used terms of one count that the map holds in another order than the
\* alphabetical one, and the top list is "a", "ab", "c"
C4_Witness ==
    /\ pc = "ranked"
    /\ Cardinality(UsedItems(frequencies)) = 4
    /\ \A x, y \in UsedItems(frequencies) : x.count = y.count
    /\ top = <<<<97>>, <<97, 98>>, <<99>>>>
    /\ top # py_slice_to(dict_keys(SelectSeq(frequencies,
                                          LAMBDA x : x.count > 0)), 3)

TermNodes(g) == {n \in DOMAIN g.nodes : g.nodes[n].role # "center"}
CenterNodes(g) == {n \in DOMAIN g.nodes : g.nodes[n].role = "center"}

\* C6: for a map with a count above 0 the graph has one center node, of
\* frequency 0, one node per used term and none for a term of count 0, one
\* edge per used term, from the center and weighing the term's count, and no
\* edge between two nodes that are not the center.
C6_GraphShape ==
    (/\ pc \in {"no_terms", "graph_built"}
     /\ UsedItems(frequencies) # {}) =>
        /\ pc = "graph_built"
        /\ Cardinality(CenterNodes(G)) = 1
        /\ \A c \in CenterNodes(G) : G.nodes[c].freq = 0
        /\ TermNodes(G) = {x.term : x \in UsedItems(frequencies)}
        /\ \A i \in 1..Len(frequencies) :
               frequencies[i].count = 0 => frequencies[i].term \notin DOMAIN G.nodes
        /\ \A x \in UsedItems(frequencies) : G.nodes[x.term].freq = x.count
        /\ DOMAIN G.edges =
               {{c, x.term} : c \in CenterNodes(G), x \in UsedItems(frequencies)}
        /\ Cardinality(DOMAIN G.edges) = Cardinality(UsedItems(frequencies))
        /\ \A x \in UsedItems(frequencies), c \in CenterNodes(G) :
               G.edges[{c, x.term}].weight = x.count
        /\ \A e \in DOMAIN G.edges : e \cap CenterNodes(G) # {}

\* a graph of two used terms of different counts, a third term unused
C6_Witness ==
    /\ pc = "graph_built"
    /\ Cardinality(TermNodes(G)) = 2
    /\ Len(frequencies) = 3
    /\ \E x, y \in UsedItems(frequencies) : x.count < y.count

\* the used terms of freq that fewer than k used terms come before, counts
\* descending and equal counts by code point
TopSet(freq, k) ==
    {x.term : x \in {y \in UsedItems(freq) :
        Cardinality({z \in UsedItems(freq) : ComesBefore(z, y, CodePointLess)}) < k}}

\* the top role in the graph of stats.build_graph
StatsTopRole ==
    LET tops == {n \in DOMAIN G.nodes : G.nodes[n].role = "top"}
    IN  /\ Cardinality(tops) <= TopK
        /\ \A n \in tops : G.nodes[n].freq > 0
        /\ tops = TopSet(frequencies, TopK) \cap DOMAIN G.nodes
        /\ \A n \in TermNodes(G) \ tops : G.nodes[n].role = "normal"

\* the top role among the nodes generate_vocab_graph.py draws
NeonTopRole ==
    LET drawn == Range(neon.nodes)
        tops == {n.label : n \in {m \in drawn : m.role = "top"}}
    IN  /\ Cardinality(tops) <= TopK
        /\ \A n \in drawn : n.role = "top" => n.freq > 0
        /\ \A n \in drawn :
               n.role = "top" =>
                   Cardinality({x \in UsedItems(frequencies) : x.count > n.freq})
                       < TopK
        /\ \A n \in drawn : n.role # "top" => n.role = "normal"

\* C5: in both scripts at most k = 3 terms have the top role, each of them
\* has a frequency above 0 and is among the k most frequent used terms, and
\* every other drawn term is normal.
C5_TopRole ==
    /\ pc \in {"graph_built", "neon_done"} /\ G # EmptyGraph => StatsTopRole
    /\ pc = "neon_done" => NeonTopRole

\* C5 for stats.build_graph alone
C5_StatsTopRole ==
    pc \in {"graph_built", "neon_done"} /\ G # EmptyGraph => StatsTopRole

\* the size of the term nodes in the graph of stats.build_graph
StatsSizes ==
    /\ \A n \in TermNodes(G) :
           G.nodes[n].size = NodeBaseSize + G.nodes[n].freq * NodeSizeScale
    /\ \A m, n \in TermNodes(G) :
           G.nodes[m].freq < G.nodes[n].freq => G.nodes[m].size < G.nodes[n].size
    /\ \A c \in CenterNodes(G) : G.nodes[c].size > NodeBaseSize

\* the size of the nodes generate_vocab_graph.py draws: equal counts give
\* equal sizes whatever the role, the sizes lie on one line base + count *
\* scale, a greater count has a greater size, and the center is larger than
\* a node of count 0
NeonSizes ==
    LET drawn == Range(neon.nodes)
    IN  /\ \A m, n \in drawn : m.freq = n.freq => m.size = n.size
        /\ \A m, n, o \in drawn :
               (n.size - m.size) * (o.freq - m.freq)
                   = (o.size - m.size) * (n.freq - m.freq)
        /\ \A m, n \in drawn :
               0 < m.freq /\ m.freq < n.freq => m.size < n.size
        /\ \A n \in drawn : n.freq = 0 => neon.center.size > n.size

\* C9: in both scripts the size of a term node is base + count * scale
\* whatever its role, so of two used terms the one of the smaller count has
\* the strictly smaller size, and the center's size is above the base.
C9_NodeSize ==
    /\ pc \in {"graph_built", "neon_done"} /\ G # EmptyGraph => StatsSizes
    /\ pc = "neon_done" => NeonSizes

\* C9 for stats.build_graph alone
C9_StatsNodeSize ==
    pc \in {"graph_built", "neon_done"} /\ G # EmptyGraph => StatsSizes

=============================================================================
